---------------------------- MODULE Spec2Model ----------------------------
(***************************************************************************)
(* Model of src/download.py: the link parser (parse_multiple_urls), the    *)
(* memoised classifier (get_url_info / get_content_type), the fetch worker *)
(* (download_single_video) and the batch coordinator                       *)
(* (download_youtube_content, started by YouTubeDownloaderGUI).            *)
(*                                                                         *)
(* Strings are sequences of one-character strings, so that splitting,      *)
(* stripping and substring tests are computed character by character.      *)
(***************************************************************************)
EXTENDS Naturals, Sequences, FiniteSets, Bags, TLC

VARIABLES
    \* ---- parse_multiple_urls -------------------------------------------
    input_string,   \* the raw text handed to parse_multiple_urls
    parse_pc,       \* "idle" | "ready" | "returned"
    valid_urls,     \* the list parse_multiple_urls returns
    invalid_count,  \* the local counter of skipped tokens
    \* ---- get_url_info and its lru_cache ---------------------------------
    cache,          \* the lru_cache: <<[key, value]>>, least recently used first
    inspect_calls,  \* link -> number of extract_info calls get_url_info made
    last_call,      \* what the latest direct call of get_url_info was and gave
    \* ---- one batch: start_download, download_youtube_content -----------
    urls,           \* the links of the batch
    env,            \* "healthy" | "faulty": what the engine and the disk may do
    max_workers,    \* the size start_download gives the pool
    pc,             \* where download_youtube_content is
    ci,             \* get_content_type calls of lines 334-337 made so far
    si,             \* links submitted so far
    fault,          \* the exception that left download_youtube_content
    num_threads,    \* threads of the ThreadPoolExecutor
    idle_sem,       \* the pool's _idle_semaphore
    task,           \* per link: the download_single_video call and its future
    results,        \* the list of line 356, as a bag: its order is left out
    report,         \* the summary of lines 373-383
    \* ---- download_single_video, lines 172-206 --------------------------
    audio_only,     \* the mode flag handed to download_single_video
    quality,        \* the quality string handed to download_single_video
    quality_pc,     \* "idle" | "ready" | "resolved"
    resolved        \* what lines 172-206 set up for the engine

parseVars == <<input_string, parse_pc, valid_urls, invalid_count>>
classifyVars == <<cache, inspect_calls, last_call>>
batchVars == <<urls, env, max_workers, pc, ci, si, fault, num_threads,
               idle_sem, task, results, report>>

qualityVars == <<audio_only, quality, quality_pc, resolved>>

vars == <<parseVars, classifyVars, batchVars, qualityVars>>

-----------------------------------------------------------------------------
(* Bounds of the model *)

\* the input text is a concatenation of at most MaxPieces pieces
MaxPieces == 5

\* The capacity of the classifier's cache.  The code sets maxsize=128
\* (src/download.py:25); the model keeps the eviction policy and scales the
\* capacity down, and the link universe with it, so that a run can hold
\* more distinct links than the cache does.
CacheCapacity == 2

\* direct calls of get_url_info in one run of the classifier
MaxClassifyCalls == 4

\* links of a batch in a faulty environment
MaxLinks == 3

\* links of a batch in a healthy environment
MaxPoolLinks == 6

-----------------------------------------------------------------------------
(* Strings *)

Min(a, b) == IF a < b THEN a ELSE b

\* Python's `sub in s`
Contains(s, sub) ==
    /\ Len(sub) <= Len(s)
    /\ \E i \in 0..(Len(s) - Len(sub)) : \A j \in 1..Len(sub) : s[i + j] = sub[j]

\* str.isspace() for the characters of the model's alphabet
IsSpace(c) == c \in {" ", "\n", "\t"}

\* the character class of the regular expression [,\s\n\t]
IsSep(c) == c = "," \/ IsSpace(c)

RECURSIVE LStrip(_)
LStrip(s) == IF s # <<>> /\ IsSpace(Head(s)) THEN LStrip(Tail(s)) ELSE s

RECURSIVE RStrip(_)
RStrip(s) ==
    IF s # <<>> /\ IsSpace(s[Len(s)]) THEN RStrip(SubSeq(s, 1, Len(s) - 1)) ELSE s

\* str.strip()
Strip(s) == LStrip(RStrip(s))

\* the first index >= i of s that holds no separator (Len(s)+1 when none)
RECURSIVE SkipSeps(_, _)
SkipSeps(s, i) == IF i <= Len(s) /\ IsSep(s[i]) THEN SkipSeps(s, i + 1) ELSE i

\* re.split(r'[,\s\n\t]+', s): the pieces between the separator runs, the
\* empty piece before a leading run and after a trailing run included
RECURSIVE ReSplitFrom(_, _, _)
ReSplitFrom(s, i, cur) ==
    IF i > Len(s) THEN <<cur>>
    ELSE IF IsSep(s[i]) THEN <<cur>> \o ReSplitFrom(s, SkipSeps(s, i), <<>>)
    ELSE ReSplitFrom(s, i + 1, Append(cur, s[i]))

ReSplit(s) == ReSplitFrom(s, 1, <<>>)

\* the literals the code tests for
S_youtube_com == <<"y","o","u","t","u","b","e",".","c","o","m">>
S_youtu_be    == <<"y","o","u","t","u",".","b","e">>
S_watch       == <<"/","w","a","t","c","h","?">>
S_playlist    == <<"/","p","l","a","y","l","i","s","t","?">>
S_at          == <<"/","@">>
S_channel     == <<"/","c","h","a","n","n","e","l","/">>
S_c           == <<"/","c","/">>
S_user        == <<"/","u","s","e","r","/">>
S_youtu_be_sl == <<"y","o","u","t","u",".","b","e","/">>

\* the profile-style path markers
HasChannelMarker(url) ==
    \/ Contains(url, S_at)
    \/ Contains(url, S_channel)
    \/ Contains(url, S_c)
    \/ Contains(url, S_user)

\* the validity test of parse_multiple_urls
IsRecognizedLink(url) ==
    /\ (Contains(url, S_youtube_com) \/ Contains(url, S_youtu_be))
    /\ \/ Contains(url, S_watch)
       \/ Contains(url, S_playlist)
       \/ Contains(url, S_at)
       \/ Contains(url, S_channel)
       \/ Contains(url, S_c)
       \/ Contains(url, S_user)
       \/ Contains(url, S_youtu_be_sl)

-----------------------------------------------------------------------------
(* parse_multiple_urls *)

\* urls = [url.strip() for url in urls if url.strip()]
RECURSIVE CleanTokens(_)
CleanTokens(toks) ==
    IF toks = <<>> THEN <<>>
    ELSE IF Strip(Head(toks)) # <<>>
         THEN <<Strip(Head(toks))>> \o CleanTokens(Tail(toks))
         ELSE CleanTokens(Tail(toks))

\* ValidateLoop with a link that was already accepted skipped
RECURSIVE ValidateLoopDedup(_, _, _)
ValidateLoopDedup(toks, valid, invalid) ==
    IF toks = <<>> THEN [valid_urls |-> valid, invalid_count |-> invalid]
    ELSE IF IsRecognizedLink(Head(toks))
         THEN IF \E k \in 1..Len(valid) : valid[k] = Head(toks)
              THEN ValidateLoopDedup(Tail(toks), valid, invalid)
              ELSE ValidateLoopDedup(Tail(toks), Append(valid, Head(toks)), invalid)
         ELSE IF Head(toks) # <<>>
              THEN ValidateLoopDedup(Tail(toks), valid, invalid + 1)
              ELSE ValidateLoopDedup(Tail(toks), valid, invalid)

\* the validation loop: [valid_urls, invalid_count] after the tokens toks
RECURSIVE ValidateLoop(_, _, _)
ValidateLoop(toks, valid, invalid) ==
    IF toks = <<>> THEN [valid_urls |-> valid, invalid_count |-> invalid]
    ELSE IF IsRecognizedLink(Head(toks))
         THEN ValidateLoop(Tail(toks), Append(valid, Head(toks)), invalid)
         ELSE IF Head(toks) # <<>>
              THEN ValidateLoop(Tail(toks), valid, invalid + 1)
              ELSE ValidateLoop(Tail(toks), valid, invalid)

ParseResult(s) == ValidateLoop(CleanTokens(ReSplit(Strip(s))), <<>>, 0)

parse_multiple_urls ==
    /\ parse_pc = "ready"
    /\ LET r == ParseResult(input_string)
       IN  /\ valid_urls' = r.valid_urls
           /\ invalid_count' = r.invalid_count
    /\ parse_pc' = "returned"
    /\ UNCHANGED <<input_string, classifyVars, batchVars, qualityVars>>

\* the pieces the input texts are built of: a whole link, a host and a
\* marker that make a link only together, and the separators
Pieces ==
    { S_youtu_be_sl \o <<"a">>, S_youtube_com, S_watch \o <<"v", "=", "a">>,
      <<",">>, <<" ">>, <<"\n">>, <<"\t">> }

\* the concatenation of the pieces ps
RECURSIVE Concat(_)
Concat(ps) == IF ps = <<>> THEN <<>> ELSE Head(ps) \o Concat(Tail(ps))

-----------------------------------------------------------------------------
(* urllib.parse.urlparse and parse_qs, as far as get_url_info uses them *)

Letters ==
    {"a","b","c","d","e","f","g","h","i","j","k","l","m",
     "n","o","p","q","r","s","t","u","v","w","x","y","z"}

Digits == {"0","1","2","3","4","5","6","7","8","9"}

\* urllib.parse.scheme_chars
IsSchemeChar(c) == c \in Letters \cup Digits \cup {"+", "-", "."}

\* the first index >= from of s whose character is in chars (Len(s)+1: none)
RECURSIVE IndexOfAny(_, _, _)
IndexOfAny(s, chars, from) ==
    IF from > Len(s) \/ s[from] \in chars THEN Min(from, Len(s) + 1)
    ELSE IndexOfAny(s, chars, from + 1)

HasChar(s, c) == \E i \in 1..Len(s) : s[i] = c

\* urlsplit: [raises, query]
UrlSplit(url) ==
    LET colon     == IndexOfAny(url, {":"}, 1)
        hasScheme == /\ colon <= Len(url)
                     /\ colon > 1
                     /\ url[1] \in Letters
                     /\ \A k \in 1..(colon - 1) : IsSchemeChar(url[k])
        rest      == IF hasScheme THEN SubSeq(url, colon + 1, Len(url)) ELSE url
        hasNetloc == Len(rest) >= 2 /\ SubSeq(rest, 1, 2) = <<"/", "/">>
        delim     == IndexOfAny(rest, {"/", "?", "#"}, 3)
        netloc    == IF hasNetloc THEN SubSeq(rest, 3, delim - 1) ELSE <<>>
        afterNet  == IF hasNetloc THEN SubSeq(rest, delim, Len(rest)) ELSE rest
        hash      == IndexOfAny(afterNet, {"#"}, 1)
        noFrag    == SubSeq(afterNet, 1, hash - 1)
        qmark     == IndexOfAny(noFrag, {"?"}, 1)
    IN  [ \* "Invalid IPv6 URL" for an unbalanced bracket; a bracketed host
          \* must be an IP literal, which no host over Letters and "." is
          raises |-> HasChar(netloc, "[") \/ HasChar(netloc, "]"),
          query  |-> SubSeq(noFrag, qmark + 1, Len(noFrag)) ]

\* s.split(c)
RECURSIVE SplitOn(_, _)
SplitOn(s, c) ==
    LET i == IndexOfAny(s, {c}, 1)
    IN  IF i > Len(s) THEN <<s>>
        ELSE <<SubSeq(s, 1, i - 1)>> \o SplitOn(SubSeq(s, i + 1, Len(s)), c)

\* `name in parse_qs(query)`: some field name=value with a non-blank value
\* (keep_blank_values is off, fields without "=" are dropped)
QueryHasParam(query, name) ==
    LET fields == SplitOn(query, "&")
    IN  \E k \in 1..Len(fields) :
            LET f  == fields[k]
                eq == IndexOfAny(f, {"="}, 1)
            IN  /\ eq <= Len(f)
                /\ SubSeq(f, 1, eq - 1) = name
                /\ eq < Len(f)

S_list == <<"l","i","s","t">>

-----------------------------------------------------------------------------
(* get_url_info *)

\* what a call gives its caller: a content type, or the exception it raises
Returned(t) == [raised |-> FALSE, content_type |-> t]
Raised      == [raised |-> TRUE,  content_type |-> "-"]

\* The engine's answer to the shallow extract_info of get_url_info: it
\* raises, returns None, or returns an info dict.  Of the dict the code reads
\* '_type' ("absent": no such key) and whether 'uploader_id' is truthy.
InspectTypes == {"video", "playlist", "url", "absent"}

InspectResponses ==
    {[kind |-> k, type |-> "-", uploader_id |-> FALSE] : k \in {"raise", "none"}}
    \cup {[kind |-> "info", type |-> t, uploader_id |-> u] :
            t \in InspectTypes, u \in BOOLEAN}

\* lines 53-62 and 79-87: the classification by the link's text
UrlFallback(url) ==
    IF UrlSplit(url).raises THEN Raised
    ELSE IF HasChannelMarker(url) THEN Returned("channel")
    ELSE IF QueryHasParam(UrlSplit(url).query, S_list) THEN Returned("playlist")
    ELSE Returned("video")

\* ChannelOrPlaylist with either signal taken for a channel
ChannelOrPlaylistEither(url, info) ==
    IF info.uploader_id \/ HasChannelMarker(url) THEN "channel" ELSE "playlist"

\* lines 65-75: the classification by the engine's info dict
ChannelOrPlaylist(url, info) ==
    IF info.uploader_id /\ HasChannelMarker(url) THEN "channel" ELSE "playlist"

ClassifyInfo(url, info) ==
    LET content_type == IF info.type = "absent" THEN "video" ELSE info.type
    IN  IF content_type = "playlist" THEN ChannelOrPlaylist(url, info)
        ELSE content_type

\* the body of get_url_info, for the engine's answer resp
GetUrlInfoBody(url, resp) ==
    CASE resp.kind = "raise" -> UrlFallback(url)
      \* lines 51-62 classify as the except clause does; a ValueError of
      \* urlparse raised there lands in the except clause, which parses the
      \* link again and raises it again
      [] resp.kind = "none"  -> UrlFallback(url)
      [] OTHER               -> Returned(ClassifyInfo(url, resp))

\* CachePos that finds no entry
CachePosNone(c, url) == 0

\* functools.lru_cache: the position of url's entry (0: none)
CachePos(c, url) ==
    IF \E k \in 1..Len(c) : c[k].key = url
    THEN CHOOSE k \in 1..Len(c) : c[k].key = url
    ELSE 0

RemoveAt(s, k) == SubSeq(s, 1, k - 1) \o SubSeq(s, k + 1, Len(s))

\* a hit makes the entry the most recently used
CacheTouch(c, k) == Append(RemoveAt(c, k), c[k])

\* CachePut with the cache taken for full one entry early
CachePutEarly(c, url, value) ==
    LET e == [key |-> url, value |-> value]
    IN  IF Len(c) + 1 >= CacheCapacity THEN Append(Tail(c), e) ELSE Append(c, e)

\* a new entry evicts the least recently used one of a full cache
CachePut(c, url, value) ==
    LET e == [key |-> url, value |-> value]
    IN  IF Len(c) >= CacheCapacity THEN Append(Tail(c), e) ELSE Append(c, e)

\* The wrapper stores the result of a miss unless the key has been stored
\* while the body ran
CacheStore(c, url, value) ==
    IF CachePos(c, url) > 0 THEN c ELSE CachePut(c, url, value)

\* One call of the cached get_url_info with the cache c, where the engine
\* would answer resp: the cache after it, whether the engine was called
\* (a miss) and what the caller gets.  A call that raises caches nothing.
GetUrlInfo(c, url, resp) ==
    LET k == CachePos(c, url)
        r == GetUrlInfoBody(url, resp)
    IN  IF k > 0
        THEN [cache |-> CacheTouch(c, k), miss |-> FALSE, ret |-> Returned(c[k].value)]
        ELSE IF r.raised
             THEN [cache |-> c, miss |-> TRUE, ret |-> r]
             ELSE [cache |-> CachePut(c, url, r.content_type), miss |-> TRUE, ret |-> r]

\* the links of the model: a video link, a profile link, a link with a list
\* parameter, and a link urlparse rejects (all pass parse_multiple_urls)
L_video   == S_youtu_be_sl \o <<"a">>
L_channel == S_youtu_be \o S_at \o <<"u">>
L_list    == S_youtu_be_sl \o <<"a", "?">> \o S_list \o <<"=", "b">>
L_bad     == <<"/", "/", "[">> \o S_youtu_be_sl \o <<"a">>

Links == {L_video, L_channel, L_list, L_bad}

NoCall == [n |-> 0, url |-> <<>>, miss |-> FALSE,
           resp |-> [kind |-> "-", type |-> "-", uploader_id |-> FALSE],
           ret |-> Raised]

\* a direct call of get_url_info (as get_content_type and is_playlist_url make)
get_url_info ==
    /\ last_call.n < MaxClassifyCalls
    /\ \E url \in Links, resp \in InspectResponses :
          LET call == GetUrlInfo(cache, url, resp)
          IN  /\ cache' = call.cache
              /\ inspect_calls' =
                    IF call.miss
                    THEN [inspect_calls EXCEPT ![url] = @ + 1]
                    ELSE inspect_calls
              /\ last_call' = [n |-> last_call.n + 1, url |-> url,
                               miss |-> call.miss,
                               resp |-> IF call.miss THEN resp ELSE NoCall.resp,
                               ret |-> call.ret]
    /\ UNCHANGED <<qualityVars, parseVars, batchVars>>


-----------------------------------------------------------------------------
(* The engine and the file system, as the batch sees them *)

\* env = "healthy": the output directory can be made and the engine
\* resolves every link to a video and downloads it; env = "faulty": every
\* call may also fail in each way it can (of the answers to the shallow
\* inspection a batch sees the failures and the video; get_url_info alone
\* is run against all of InspectResponses).  The environment is fixed for
\* a run; the code neither reads nor changes it.
InspectResponsesIn(e) ==
    IF e = "healthy"
    THEN {[kind |-> "info", type |-> "video", uploader_id |-> FALSE]}
    ELSE {r \in InspectResponses :
            r.kind \in {"raise", "none"} \/ (r.type = "video" /\ ~r.uploader_id)}

\* The engine's answer to the full extract_info of download_single_video:
\* it raises, returns None, or returns an info dict, of which the code reads
\* '_type' and the length of 'entries'.
MetaResponsesIn(e) ==
    IF e = "healthy"
    THEN {[kind |-> "info", type |-> "video", entries |-> 0]}
    ELSE {[kind |-> k, type |-> "-", entries |-> 0] : k \in {"raise", "none"}}
         \cup {[kind |-> "info", type |-> "video", entries |-> 0]}
         \cup {[kind |-> "info", type |-> "playlist", entries |-> n] : n \in 0..1}

\* ydl.download returns or raises
DownloadResponsesIn(e) == IF e = "healthy" THEN {"ok"} ELSE {"ok", "raise"}

\* os.makedirs returns or raises
MakedirsResponsesIn(e) == IF e = "healthy" THEN {"ok"} ELSE {"ok", "raise"}

-----------------------------------------------------------------------------
(* download_single_video *)

NoMessage == [thread_id |-> 0, text |-> "-"]
NoOutcome == [url |-> <<>>, success |-> FALSE, message |-> NoMessage]

\* the dict download_single_video returns; its message is the thread tag
\* and which of the texts of lines 266, 280, 292, 298 and 305 it is
Outcome(url, ok, thread_id, text) ==
    [url |-> url, success |-> ok,
     message |-> [thread_id |-> thread_id, text |-> text]]

\* a task of the pool: st is "pending" (not submitted), "queued",
\* "inspecting" (in the engine call of line 48, from line 238), "running"
\* (at line 259), "fetching" (at line 284), "returned" or "raised"; meta is
\* what the fresh extract_info gave and dl whether ydl.download was called.
\* The content type of line 238 only selects the output template and the
\* wording of the messages, which the model does not keep.
NewTask == [st |-> "pending", meta |-> "unset", dl |-> FALSE, out |-> NoOutcome]

\* IsEmptyCollection without the check of line 276
IsEmptyCollectionUnchecked(m) == FALSE

\* line 269 and line 276: a collection-shaped info with no entries
IsEmptyCollection(m) == m.type = "playlist" /\ m.entries = 0

MetaKind(m) ==
    IF m.kind # "info" THEN m.kind
    ELSE IF m.type = "video" THEN "video"
    ELSE IF m.entries = 0 THEN "empty_playlist" ELSE "playlist"

\* lines 259-281: the task after the engine answered the full extract_info
\* with m (an exception lands in the except clause of line 301)
AfterExtract(t, url, i, m) ==
    CASE m.kind = "raise" ->
            [t EXCEPT !.st = "returned", !.meta = MetaKind(m),
                      !.out = Outcome(url, FALSE, i, "error")]
      [] m.kind = "none" ->
            [t EXCEPT !.st = "returned", !.meta = MetaKind(m),
                      !.out = Outcome(url, FALSE, i, "unavailable")]
      [] OTHER ->
            IF IsEmptyCollection(m)
            THEN [t EXCEPT !.st = "returned", !.meta = MetaKind(m),
                           !.out = Outcome(url, FALSE, i, "empty")]
            ELSE [t EXCEPT !.st = "fetching", !.meta = MetaKind(m)]

\* lines 284-306: the task after ydl.download answered d
AfterDownload(t, url, i, d) ==
    IF d = "raise"
    THEN [t EXCEPT !.st = "returned", !.dl = TRUE,
                   !.out = Outcome(url, FALSE, i, "error")]
    ELSE IF t.meta = "playlist"
         THEN [t EXCEPT !.st = "returned", !.dl = TRUE,
                        !.out = Outcome(url, TRUE, i, "collection_completed")]
         ELSE [t EXCEPT !.st = "returned", !.dl = TRUE,
                        !.out = Outcome(url, TRUE, i, "completed")]

-----------------------------------------------------------------------------
(* download_single_video, lines 172-199: what the quality string stands for *)

\* the dict of lines 174-180
AudioQualityMap ==
       <<"3", "2", "0", "k", "b", "p", "s">> :> <<"3", "2", "0">>
    @@ <<"2", "5", "6", "k", "b", "p", "s">> :> <<"2", "5", "6">>
    @@ <<"1", "9", "2", "k", "b", "p", "s">> :> <<"1", "9", "2">>
    @@ <<"1", "2", "8", "k", "b", "p", "s">> :> <<"1", "2", "8">>
    @@ <<"6", "4", "k", "b", "p", "s">> :> <<"6", "4">>

\* the dict of lines 192-198
VideoQualityMap ==
       <<"1", "0", "8", "0", "p">> :> <<"1", "0", "8", "0">>
    @@ <<"7", "2", "0", "p">> :> <<"7", "2", "0">>
    @@ <<"4", "8", "0", "p">> :> <<"4", "8", "0">>
    @@ <<"3", "6", "0", "p">> :> <<"3", "6", "0">>
    @@ <<"2", "4", "0", "p">> :> <<"2", "4", "0">>

\* dict.get(key, default)
DictGet(d, key, default) == IF key \in DOMAIN d THEN d[key] ELSE default

S_192  == <<"1", "9", "2">>
S_1080 == <<"1", "0", "8", "0">>

\* ResolveQuality with the default of the audio mode in both modes
ResolveQualityOneDefault(audio, q) ==
    IF audio
    THEN [file_extension |-> "mp3", target |-> DictGet(AudioQualityMap, q, S_192)]
    ELSE [file_extension |-> "mp4", target |-> DictGet(VideoQualityMap, q, S_192)]

\* lines 172-206: audio_quality (line 181) with the extension of line 183,
\* or video_height (line 199) with the extension of line 206
ResolveQuality(audio, q) ==
    IF audio
    THEN [file_extension |-> "mp3", target |-> DictGet(AudioQualityMap, q, S_192)]
    ELSE [file_extension |-> "mp4", target |-> DictGet(VideoQualityMap, q, S_1080)]

NoResolution == [file_extension |-> "-", target |-> <<>>]

\* lines 172-211 of download_single_video, called with audio_only and quality
resolve_quality ==
    /\ quality_pc = "ready"
    /\ resolved' = ResolveQuality(audio_only, quality)
    /\ quality_pc' = "resolved"
    /\ UNCHANGED <<audio_only, quality, parseVars, classifyVars, batchVars>>

\* the quality strings of a run: the ten the GUI offers (lines 453 and
\* 504-508), the default 'best' of the signature (line 159), and strings
\* that are close to a key without being one
QualityStrings ==
    DOMAIN AudioQualityMap \cup DOMAIN VideoQualityMap \cup
    {<<"b", "e", "s", "t">>,
     <<>>,
     <<"1", "0", "8", "0">>,
     <<"3", "2", "0">>,
     <<"1", "9", "2">>,
     <<"1", "0", "8", "0", "P">>,
     <<"1", "9", "2", "K", "B", "P", "S">>,
     <<"2", "1", "6", "0", "p">>,
     <<"1", "4", "4", "0", "p">>,
     <<"1", "4", "4", "p">>,
     <<"9", "6", "k", "b", "p", "s">>,
     <<"5", "1", "2", "k", "b", "p", "s">>,
     <<" ", "7", "2", "0", "p">>,
     <<"7", "2", "0", "p", " ">>,
     <<"1", "2", "8", " ", "k", "b", "p", "s">>,
     <<"p">>}

-----------------------------------------------------------------------------
(* YouTubeDownloaderGUI.start_download and download_youtube_content *)

\* the ceiling of line 536
PoolCeiling == 5

\* AutoWorkers without the ceiling
AutoWorkersUncapped(n) == IF n = 0 THEN 1 ELSE n

\* lines 536-538
AutoWorkers(n) == IF Min(n, PoolCeiling) = 0 THEN 1 ELSE Min(n, PoolCeiling)

N == Len(urls)

Finished(i) == task[i].st \in {"returned", "raised"}
Active(i)   == task[i].st \in {"inspecting", "running", "fetching"}
ActiveSet   == {i \in 1..N : Active(i)}

\* the futures as_completed has handed to the loop of line 364
Collected(i) == \E r \in BagToSet(results) : r.message.thread_id = i

\* the loop of line 364 ends when as_completed has yielded every future
AsCompletedExhausted == \A i \in 1..N : Collected(i)

\* ShutdownReturns for shutdown(wait=False)
ShutdownReturnsAtOnce == TRUE

\* leaving the with block of line 357 is shutdown(wait=True): it returns
\* when every submitted task has finished
ShutdownReturns == \A i \in 1..N : task[i].st # "pending" => Finished(i)

\* Filter that keeps the failed results whatever is asked for
FilterFailed(rs, ok) == [r \in {x \in BagToSet(rs) : ~x.success} |-> rs[r]]

\* [r for r in rs if r['success'] == ok]
Filter(rs, ok) == [r \in {x \in BagToSet(rs) : x.success = ok} |-> rs[r]]

NoReport == [made |-> FALSE, successful |-> 0, failed |-> 0, failures |-> EmptyBag]

\* lines 373-383: the two counts and, per failed result, its url and message
BuildReport(rs) ==
    [made |-> TRUE,
     successful |-> BagCardinality(Filter(rs, TRUE)),
     failed |-> BagCardinality(Filter(rs, FALSE)),
     failures |-> Filter(rs, FALSE)]

\* line 326
Makedirs ==
    /\ pc = "start"
    /\ \E r \in MakedirsResponsesIn(env) :
          IF r = "ok" THEN pc' = "classify" /\ fault' = fault
          ELSE pc' = "failed" /\ fault' = "makedirs"
    /\ UNCHANGED <<qualityVars, parseVars, classifyVars, urls, env, max_workers, ci, si,
                   num_threads, idle_sem, task, results, report>>

\* lines 334-337: one get_content_type call of the two passes over urls; an
\* exception of get_url_info leaves download_youtube_content
CoordClassify ==
    /\ pc = "classify"
    /\ \E resp \in InspectResponsesIn(env) :
          LET url  == urls[(ci % N) + 1]
              call == GetUrlInfo(cache, url, resp)
          IN  /\ cache' = call.cache
              /\ inspect_calls' =
                    IF call.miss THEN [inspect_calls EXCEPT ![url] = @ + 1]
                    ELSE inspect_calls
              /\ IF call.ret.raised
                 THEN pc' = "failed" /\ fault' = "classify" /\ ci' = ci
                 ELSE /\ ci' = ci + 1
                      /\ pc' = IF ci + 1 = 2 * N THEN "submit" ELSE "classify"
                      /\ fault' = fault
    /\ UNCHANGED <<qualityVars, parseVars, last_call, urls, env, max_workers, si,
                   num_threads, idle_sem, task, results, report>>

\* lines 358-361: executor.submit of the next link; the pool starts a thread
\* when none is idle and fewer than max_workers exist
Submit ==
    /\ pc = "submit"
    /\ task' = [task EXCEPT ![si + 1].st = "queued"]
    /\ IF idle_sem > 0
       THEN idle_sem' = idle_sem - 1 /\ num_threads' = num_threads
       ELSE /\ idle_sem' = idle_sem
            /\ num_threads' = IF num_threads < max_workers
                              THEN num_threads + 1 ELSE num_threads
    /\ si' = si + 1
    /\ pc' = IF si + 1 = N THEN "collect" ELSE "submit"
    /\ UNCHANGED <<qualityVars, parseVars, classifyVars, urls, env, max_workers, ci, fault,
                   results, report>>

\* A pool thread takes the oldest queued task and runs download_single_video
\* from line 172 to the cache lookup of the get_url_info call of line 238:
\* on a hit the call returns the cached type and the task goes on to line
\* 256; on a miss the thread enters the body of get_url_info and calls the
\* engine (the lru_cache holds no lock meanwhile).
WorkerStart(i) ==
    /\ task[i].st = "queued"
    /\ \A j \in 1..(i - 1) : task[j].st # "queued"
    /\ Cardinality(ActiveSet) < num_threads
    /\ LET k == CachePos(cache, urls[i])
       IN  IF k > 0
           THEN /\ cache' = CacheTouch(cache, k)
                /\ inspect_calls' = inspect_calls
                /\ task' = [task EXCEPT ![i].st = "running"]
           ELSE /\ cache' = cache
                /\ inspect_calls' = [inspect_calls EXCEPT ![urls[i]] = @ + 1]
                /\ task' = [task EXCEPT ![i].st = "inspecting"]
    /\ UNCHANGED <<qualityVars, parseVars, last_call, urls, env, max_workers,
                   pc, ci, si, fault, num_threads, idle_sem, results, report>>

\* The engine answers the shallow inspection a worker's get_url_info made
\* (lines 47-87), and the call of line 238 returns or raises.  Nothing
\* catches an exception there: it ends the task and is kept in its future.
WorkerInspect(i) ==
    /\ task[i].st = "inspecting"
    /\ \E resp \in InspectResponsesIn(env) :
          LET r == GetUrlInfoBody(urls[i], resp)
          IN  IF r.raised
              THEN /\ cache' = cache
                   /\ task' = [task EXCEPT ![i].st = "raised"]
                   /\ idle_sem' = idle_sem + 1
              ELSE /\ cache' = CacheStore(cache, urls[i], r.content_type)
                   /\ task' = [task EXCEPT ![i].st = "running"]
                   /\ idle_sem' = idle_sem
    /\ UNCHANGED <<qualityVars, parseVars, inspect_calls, last_call, urls, env,
                   max_workers, pc, ci, si, fault, num_threads, results, report>>

\* lines 256-281: the fresh extract_info and the checks of its result
WorkerExtract(i) ==
    /\ task[i].st = "running"
    /\ \E m \in MetaResponsesIn(env) :
          /\ task' = [task EXCEPT ![i] = AfterExtract(@, urls[i], i, m)]
          /\ idle_sem' = IF task'[i].st = "returned" THEN idle_sem + 1 ELSE idle_sem
    /\ UNCHANGED <<qualityVars, parseVars, classifyVars, urls, env, max_workers, pc, ci, si,
                   fault, num_threads, results, report>>

\* lines 284-306: the download and the outcome
WorkerDownload(i) ==
    /\ task[i].st = "fetching"
    /\ \E d \in DownloadResponsesIn(env) :
          task' = [task EXCEPT ![i] = AfterDownload(@, urls[i], i, d)]
    /\ idle_sem' = idle_sem + 1
    /\ UNCHANGED <<qualityVars, parseVars, classifyVars, urls, env, max_workers, pc, ci, si,
                   fault, num_threads, results, report>>

\* lines 364-367: as_completed yields a finished future and future.result()
\* returns the task's dict or raises the task's exception
Collect(i) ==
    /\ pc = "collect"
    /\ Finished(i)
    /\ ~Collected(i)
    /\ IF task[i].st = "raised"
       THEN pc' = "join" /\ fault' = "worker" /\ results' = results
       ELSE /\ pc' = pc
            /\ fault' = fault
            /\ results' = results (+) SetToBag({task[i].out})
    /\ UNCHANGED <<qualityVars, parseVars, classifyVars, urls, env, max_workers, ci, si,
                   num_threads, idle_sem, task, report>>

\* line 364: the loop ends
LoopEnd ==
    /\ pc = "collect"
    /\ AsCompletedExhausted
    /\ pc' = "join"
    /\ UNCHANGED <<qualityVars, parseVars, classifyVars, urls, env, max_workers, ci, si,
                   fault, num_threads, idle_sem, task, results, report>>

\* the end of the with block of line 357, left normally or by an exception
Join ==
    /\ pc = "join"
    /\ ShutdownReturns
    /\ pc' = IF fault = "none" THEN "summary" ELSE "failed"
    /\ UNCHANGED <<qualityVars, parseVars, classifyVars, urls, env, max_workers, ci, si,
                   fault, num_threads, idle_sem, task, results, report>>

\* lines 369-386
Summary ==
    /\ pc = "summary"
    /\ report' = BuildReport(results)
    /\ pc' = "done"
    /\ UNCHANGED <<qualityVars, parseVars, classifyVars, urls, env, max_workers, ci, si,
                   fault, num_threads, idle_sem, task, results>>

\* the batches of the model: the runs of the list BatchBase, which hold a
\* duplicate, a profile link and a link urlparse rejects
BatchBase == <<L_video, L_video, L_channel, L_bad>>

SmallBatches ==
    {SubSeq(BatchBase, w[1], w[2]) :
        w \in {v \in (1..Len(BatchBase)) \X (1..Len(BatchBase)) :
                  v[1] <= v[2] /\ v[2] - v[1] < MaxLinks}}

RECURSIVE Copies(_, _)
Copies(x, n) == IF n = 0 THEN <<>> ELSE <<x>> \o Copies(x, n - 1)

LargeBatches == {Copies(L_video, n) : n \in 1..MaxPoolLinks}

BatchIdle ==
    /\ urls = <<>>
    /\ env = "healthy"
    /\ max_workers = 0
    /\ pc = "idle"
    /\ ci = 0
    /\ si = 0
    /\ fault = "none"
    /\ num_threads = 0
    /\ idle_sem = 0
    /\ task = <<>>
    /\ results = EmptyBag
    /\ report = NoReport

QualityIdle ==
    /\ audio_only = FALSE
    /\ quality = <<>>
    /\ quality_pc = "idle"
    /\ resolved = NoResolution

ClassifyIdle ==
    /\ cache = <<>>
    /\ inspect_calls = [l \in Links |-> 0]
    /\ last_call = NoCall

ParseIdle ==
    /\ input_string = <<>>
    /\ parse_pc = "idle"
    /\ valid_urls = <<>>
    /\ invalid_count = 0

InitParse ==
    /\ \E n \in 0..MaxPieces : \E ps \in [1..n -> Pieces] : input_string = Concat(ps)
    /\ parse_pc = "ready"
    /\ valid_urls = <<>>
    /\ invalid_count = 0
    /\ ClassifyIdle
    /\ BatchIdle
    /\ QualityIdle

NextParse == parse_multiple_urls

SpecParse == InitParse /\ [][NextParse]_vars

InitClassify ==
    /\ ParseIdle
    /\ ClassifyIdle
    /\ BatchIdle
    /\ QualityIdle

NextClassify == get_url_info

SpecClassify == InitClassify /\ [][NextClassify]_vars

\* download_single_video is called with a mode and a quality string
InitQuality ==
    /\ ParseIdle
    /\ ClassifyIdle
    /\ BatchIdle
    /\ audio_only \in BOOLEAN
    /\ quality \in QualityStrings
    /\ quality_pc = "ready"
    /\ resolved = NoResolution

NextQuality == resolve_quality

SpecQuality == InitQuality /\ [][NextQuality]_vars

\* start_download has parsed the text into urls, chosen max_workers and
\* started the thread that runs download_youtube_content
InitBatch ==
    /\ ParseIdle
    /\ ClassifyIdle
    /\ \/ env = "faulty" /\ urls \in SmallBatches
       \/ env = "healthy" /\ urls \in LargeBatches
    /\ max_workers = AutoWorkers(Len(urls))
    /\ pc = "start"
    /\ ci = 0
    /\ si = 0
    /\ fault = "none"
    /\ num_threads = 0
    /\ idle_sem = 0
    /\ task = [i \in 1..Len(urls) |-> NewTask]
    /\ results = EmptyBag
    /\ report = NoReport
    /\ QualityIdle

Next ==
    \/ Makedirs
    \/ CoordClassify
    \/ Submit
    \/ \E i \in 1..N : WorkerStart(i)
    \/ \E i \in 1..N : WorkerInspect(i)
    \/ \E i \in 1..N : WorkerExtract(i)
    \/ \E i \in 1..N : WorkerDownload(i)
    \/ \E i \in 1..N : Collect(i)
    \/ LoopEnd
    \/ Join
    \/ Summary

Spec == InitBatch /\ [][Next]_vars

-----------------------------------------------------------------------------
(* Properties of parse_multiple_urls *)

C7_IsSeparator(c) == c \in {",", " ", "\n", "\t"}

\* where the non-empty separator-delimited tokens of s start
C7_TokenStarts(s) ==
    {i \in 1..Len(s) :
        ~C7_IsSeparator(s[i]) /\ (i = 1 \/ C7_IsSeparator(s[i - 1]))}

\* the token of s that starts at i
C7_Token(s, i) ==
    LET j == CHOOSE j \in i..Len(s) :
                 /\ \A k \in i..j : ~C7_IsSeparator(s[k])
                 /\ (j = Len(s) \/ C7_IsSeparator(s[j + 1]))
    IN  SubSeq(s, i, j)

C7_Accepted(s) == {i \in C7_TokenStarts(s) : IsRecognizedLink(C7_Token(s, i))}

\* C7: parse_multiple_urls returns exactly the non-empty tokens of the text
\* that are recognized links, in input order and with duplicates kept, and
\* counts every other non-empty token as rejected, so that returned count
\* + rejected count = number of non-empty tokens; with no valid token it
\* returns the empty list.
C7_ParseContract ==
    parse_pc = "returned" =>
        LET starts == C7_TokenStarts(input_string)
            acc    == C7_Accepted(input_string)
        IN  /\ Len(valid_urls) = Cardinality(acc)
            /\ \A i \in acc :
                   valid_urls[Cardinality({j \in acc : j < i}) + 1]
                       = C7_Token(input_string, i)
            /\ invalid_count = Cardinality(starts \ acc)
            /\ Len(valid_urls) + invalid_count = Cardinality(starts)

\* a text with the same link twice and a rejected token has been parsed
C7_Witness ==
    /\ parse_pc = "returned"
    /\ Len(valid_urls) = 2
    /\ valid_urls[1] = valid_urls[2]
    /\ invalid_count = 1

-----------------------------------------------------------------------------
(* Properties of get_url_info *)

C5_Seen(calls) == {l \in Links : calls[l] > 0}

C5_EntryKept(l) ==
    CachePos(cache, l) > 0 =>
        /\ CachePos(cache', l) > 0
        /\ inspect_calls'[l] = inspect_calls[l]

C8_ClassifyByResponse ==
    (last_call.n > 0 /\ last_call.miss /\ last_call.resp.kind = "info") =>
        /\ ~last_call.ret.raised
        /\ last_call.resp.type = "video" => last_call.ret.content_type = "video"
        /\ last_call.resp.type = "playlist" =>
              last_call.ret.content_type =
                 IF last_call.resp.uploader_id /\ HasChannelMarker(last_call.url)
                 THEN "channel" ELSE "playlist"

\* a playlist response without uploader id for a profile link was classified
C8_Witness ==
    /\ last_call.miss
    /\ last_call.resp.kind = "info"
    /\ last_call.resp.type = "playlist"
    /\ ~last_call.resp.uploader_id
    /\ HasChannelMarker(last_call.url)
    /\ last_call.ret.content_type = "playlist"

\* C9: whatever the engine does, a call of get_url_info that returns gives
\* one of 'video', 'playlist' and 'channel'.
C9_OnlyThreeShapes ==
    (last_call.n > 0 /\ ~last_call.ret.raised) =>
        last_call.ret.content_type \in {"video", "playlist", "channel"}

-----------------------------------------------------------------------------
(* Properties of a batch *)

\* C1: with the pool size start_download chooses, at most min(N, 5) calls
\* of download_single_video are active at the same time, and the pool has
\* room for at least one.
C1_PoolBound ==
    pc # "idle" =>
        /\ Cardinality(ActiveSet) <= Min(N, 5)
        /\ max_workers >= 1

\* six links: five downloads are active and the sixth waits in the queue
C1_Witness ==
    /\ N = 6
    /\ Cardinality(ActiveSet) = 5
    /\ task[6].st = "queued"

\* C2: when download_youtube_content has ended after the output directory
\* was made and the links were classified, a task that raised has a failed
\* outcome for its own link among the results, and the outcome of every
\* task that returned is among the results.
C2_FaultIsolated ==
    (pc \in {"done", "failed"} /\ fault \notin {"makedirs", "classify"}) =>
        \A i \in 1..N :
            /\ task[i].st = "raised" =>
                  \E r \in BagToSet(results) :
                      /\ r.url = urls[i]
                      /\ r.message.thread_id = i
                      /\ ~r.success
            /\ task[i].st = "returned" => CopiesIn(task[i].out, results) >= 1

C3_Failing == {i \in 1..N : ~task[i].out.success}

\* C3: when the batch has finished, the results hold exactly one outcome
\* per list position, each for the link at that position; the successful
\* and the failed count add up to the number of links; the successful
\* count is the number of tasks that returned success; and the failure
\* list holds exactly the outcomes (link and message) of the tasks that
\* returned failure.
C3_AggregateCorrect ==
    pc = "done" =>
        /\ BagCardinality(results) = N
        /\ \A i \in 1..N :
              /\ task[i].st = "returned"
              /\ task[i].out.url = urls[i]
              /\ CopiesIn(task[i].out, results) = 1
        /\ report.successful + report.failed = N
        /\ report.successful = Cardinality({i \in 1..N : task[i].out.success})
        /\ BagToSet(report.failures) = {task[i].out : i \in C3_Failing}
        /\ BagCardinality(report.failures) = Cardinality(C3_Failing)

\* three links, the first two the same, have come out success, failure,
\* success, and the report says 2 and 1
C3_Witness ==
    /\ pc = "done"
    /\ N = 3
    /\ urls[1] = urls[2]
    /\ task[1].out.success /\ ~task[2].out.success /\ task[3].out.success
    /\ report.successful = 2
    /\ report.failed = 1

\* C4: the summary is built, and download_youtube_content is left, only
\* when every submitted task has finished.
C4_JoinAllBarrier ==
    /\ (pc \in {"summary", "done"} \/ report.made) => \A i \in 1..N : Finished(i)
    /\ pc = "failed" => \A i \in 1..N : task[i].st # "pending" => Finished(i)

\* the report of a batch of three links has been built
C4_Witness ==
    /\ report.made
    /\ N = 3
    /\ \A i \in 1..N : Finished(i)

\* C6: unless the output directory cannot be made, download_youtube_content
\* ends with the report, and the report lists every failed link with its
\* message.
C6_ReportAlwaysProduced ==
    /\ pc = "failed" => fault = "makedirs"
    /\ pc = "done" =>
          /\ report.made
          /\ \A i \in 1..N :
                (Finished(i) /\ ~task[i].out.success) =>
                    CopiesIn(task[i].out, report.failures) = 1

\* C10: a task whose fresh metadata is nothing, or a collection without
\* entries, has returned a failed outcome for its link without the download
\* call; the download call is made only after metadata that is neither.
C10_FailFast ==
    \A i \in 1..N :
        /\ task[i].dl => task[i].meta \in {"video", "playlist"}
        /\ task[i].meta \in {"none", "empty_playlist"} =>
              /\ task[i].st = "returned"
              /\ ~task[i].dl
              /\ ~task[i].out.success
              /\ task[i].out.url = urls[i]

\* one task has failed on an empty collection, one on missing metadata,
\* and one has called the download
C10_Witness ==
    /\ \E i \in 1..N : task[i].meta = "empty_playlist" /\ task[i].st = "returned"
    /\ \E i \in 1..N : task[i].meta = "none" /\ task[i].st = "returned"
    /\ \E i \in 1..N : task[i].dl

-----------------------------------------------------------------------------
(* Properties of the quality resolution *)

C11_Bitrates == {<<"3", "2", "0">>, <<"2", "5", "6">>, <<"1", "9", "2">>, <<"1", "2", "8">>, <<"6", "4">>}

C11_Heights == {<<"1", "0", "8", "0">>, <<"7", "2", "0">>, <<"4", "8", "0">>, <<"3", "6", "0">>, <<"2", "4", "0">>}

C11_WithoutSuffix(q, n) == SubSeq(q, 1, Len(q) - n)

C11_IsBitrateString(q) ==
    /\ Len(q) > 4
    /\ SubSeq(q, Len(q) - 3, Len(q)) = <<"k", "b", "p", "s">>
    /\ C11_WithoutSuffix(q, 4) \in C11_Bitrates

C11_IsHeightString(q) ==
    /\ Len(q) > 1
    /\ q[Len(q)] = "p"
    /\ C11_WithoutSuffix(q, 1) \in C11_Heights

\* C11: in audio mode a quality string that is one of 320kbps, 256kbps,
\* 192kbps, 128kbps and 64kbps resolves to its own bitrate and every other
\* string to 192; in video mode one of 1080p, 720p, 480p, 360p and 240p
\* resolves to its own height and every other string to 1080.
C11_QualityResolution ==
    quality_pc = "resolved" =>
        IF audio_only
        THEN resolved.target =
                IF C11_IsBitrateString(quality)
                THEN C11_WithoutSuffix(quality, 4) ELSE <<"1", "9", "2">>
        ELSE resolved.target =
                IF C11_IsHeightString(quality)
                THEN C11_WithoutSuffix(quality, 1) ELSE <<"1", "0", "8", "0">>

\* a height string was resolved in audio mode, to the default bitrate
C11_Witness ==
    /\ quality_pc = "resolved"
    /\ audio_only
    /\ C11_IsHeightString(quality)
    /\ resolved.target = <<"1", "9", "2">>

-----------------------------------------------------------------------------
(* Properties of the inspect calls of a batch *)

\* the batch has no more distinct links than the cache holds
C12_Fits == Cardinality({urls[i] : i \in 1..N}) <= CacheCapacity

\* this step issues a shallow inspect call
C12_InspectIssued == inspect_calls' # inspect_calls

\* this step is task i's classification lookup of line 238
C12_Lookup(i) == task[i].st = "queued" /\ task'[i].st # "queued"

\* C12: in a batch with no more distinct links than the cache holds (128 in
\* the code), every shallow inspect call is issued by the coordinator, one
\* at a time, before the first task is submitted; the classification lookup
\* of every task is a cache hit; so no task issues or runs an inspect call,
\* and no two inspect calls run at the same time.
C12_InspectsBeforeWorkers ==
    [][C12_Fits =>
         /\ C12_InspectIssued =>
                /\ pc = "classify"
                /\ si = 0
                /\ \A i \in 1..N : task[i].st = "pending" /\ task'[i].st = "pending"
         /\ \A i \in 1..N :
                /\ C12_Lookup(i) =>
                       /\ CachePos(cache, urls[i]) > 0
                       /\ task'[i].st = "running"
                /\ task'[i].st # "inspecting"]_vars

\* two tasks for different links run at once after their lookups, and each
\* link of the batch has been inspected once
C12_Witness ==
    /\ C12_Fits
    /\ \E i, j \in 1..N :
          /\ urls[i] # urls[j]
          /\ task[i].st \in {"running", "fetching"}
          /\ task[j].st \in {"running", "fetching"}
    /\ \A i \in 1..N : inspect_calls[urls[i]] = 1

=============================================================================
